---- MODULE Spec2Model ----
(***************************************************************************)
(* A model of the summarization engine of pdf2text (deepseek_client.py):   *)
(* the request/retry policy (_make_request, _retry_request), a single      *)
(* summarization call (summarize_text) and the chunked, concurrent         *)
(* summarization (summarize_text_chunks).                                  *)
(* Further down: the page extraction of PDFParser (pdf_parser.py) and the   *)
(* cleaning steps of TextPreprocessor (text_preprocessor.py).              *)
(*                                                                         *)
(* A Python str is a sequence of one-character strings; a Python exception *)
(* is a record [cls, msg].                                                 *)
(***************************************************************************)
EXTENDS Integers, Sequences, FiniteSets, TLC

(***************************************************************************)
(* Bounds of the model.                                                    *)
(***************************************************************************)
\* the largest number of paragraphs of an input text
MaxParas == 3
\* the largest max_workers argument of summarize_text_chunks
MaxWorkersArg == 2
\* the largest max_retries argument of a direct _retry_request call
MaxRetriesArg == 4
\* the two explicit chunk_size arguments that are tried
SmallChunk == 2
MidChunk == 6
\* the longest text and the largest chunk_size argument the splitting is
\* tried on
MaxTextLen == 7
MaxChunkArg == 4
\* the largest number of pages of a PDF and of word tokens of a page
MaxPages == 2
MaxTokens == 4
\* the longest text the preprocessor is tried on
MaxCleanLen == 3

(***************************************************************************)
(* Program constants.                                                      *)
(***************************************************************************)
\* Config.MAX_RETRIES
MAX_RETRIES == 3
\* Config.RETRY_DELAY
RETRY_DELAY == 2
\* Config.CHUNK_SIZE
CHUNK_SIZE == 1000
\* the 5 of "Config.CHUNK_SIZE * 5"
CHUNK_FACTOR == 5
\* the 500 of "chunks[idx][:500]"
FALLBACK_PREFIX == 500
\* the default of the max_workers parameter
DEFAULT_MAX_WORKERS == 3

(***************************************************************************)
(* Python strings.                                                         *)
(***************************************************************************)
Min(a, b) == IF a <= b THEN a ELSE b

\* c * n
Rep(c, n) == [i \in 1..n |-> c]

\* s[:n]
Take(s, n) == SubSeq(s, 1, Min(n, Len(s)))

\* the characters str.strip() removes
Whitespace == {" ", "\t", "\n"}

\* "not text or not text.strip()"
Blank(text) == \A i \in 1..Len(text) : text[i] \in Whitespace

\* the paragraph separator '\n\n'
SEP == <<"\n", "\n">>

\* the ellipsis "..."
ELLIPSIS == <<".", ".", ".">>

\* '\n\n'.join(parts), parts a sequence of strings
RECURSIVE JoinFrom(_, _)
JoinFrom(parts, k) ==
    IF k > Len(parts) THEN <<>>
    ELSE IF k = Len(parts) THEN parts[k]
    ELSE parts[k] \o SEP \o JoinFrom(parts, k + 1)

Join(parts) == JoinFrom(parts, 1)

\* the positions from i on where a separator '\n\n' begins
SepsFrom(text, i) ==
    {j \in i..(Len(text) - 1) : text[j] = "\n" /\ text[j + 1] = "\n"}

\* text.split('\n\n') of text[i-1:]: the separators are found left to right
\* and do not overlap
RECURSIVE SplitFrom(_, _)
SplitFrom(text, i) ==
    IF SepsFrom(text, i) = {} THEN <<SubSeq(text, i, Len(text))>>
    ELSE LET j == CHOOSE p \in SepsFrom(text, i) :
                      \A q \in SepsFrom(text, i) : p <= q
         IN  <<SubSeq(text, i, j - 1)>> \o SplitFrom(text, j + 2)

Split(text) == SplitFrom(text, 1)

(***************************************************************************)
(* The splitting loop of summarize_text_chunks.                            *)
(***************************************************************************)
\* one iteration of "for para in paragraphs", on the loop state
\* [chunks, current_chunk, current_size]
\* a test made before the paragraph is counted
OverflowsBefore(st, para) == st.current_size > st.chunk_size

\* "current_size + para_size > chunk_size"
Overflows(st, para) == st.current_size + Len(para) > st.chunk_size

SplitIter(st, para) ==
    IF Overflows(st, para) /\ st.current_chunk # <<>>
    THEN [st EXCEPT !.chunks = Append(@, Join(st.current_chunk)),
                    !.current_chunk = <<para>>,
                    !.current_size = Len(para)]
    ELSE [st EXCEPT !.current_chunk = Append(@, para),
                    !.current_size = @ + Len(para)]

RECURSIVE SplitLoop(_, _, _)
SplitLoop(st, paragraphs, k) ==
    IF k > Len(paragraphs) THEN st
    ELSE SplitLoop(SplitIter(st, paragraphs[k]), paragraphs, k + 1)

\* the splitting loop
SplitLoopOf(text, chunk_size) ==
    SplitLoop([chunks |-> <<>>, current_chunk |-> <<>>,
               current_size |-> 0, chunk_size |-> chunk_size],
              Split(text), 1)

\* a splitting that forgets the chunk being built when the loop ends
MakeChunksNoTail(text, chunk_size) == SplitLoopOf(text, chunk_size).chunks

\* the chunks of text for a chunk size, as a sequence (chunk idx is element idx + 1)
MakeChunks(text, chunk_size) ==
    LET st == SplitLoopOf(text, chunk_size)
    IN  IF st.current_chunk # <<>>
        THEN Append(st.chunks, Join(st.current_chunk))
        ELSE st.chunks

\* "chunk_size or Config.CHUNK_SIZE * 5"
EffectiveChunkSize(arg) == IF arg = 0 THEN CHUNK_SIZE * CHUNK_FACTOR ELSE arg

(***************************************************************************)
(* _make_request: what one request to the completion endpoint yields.      *)
(***************************************************************************)
MSG_RATE_LIMIT == "API rate limit exceeded. Please try again later."
MSG_INVALID_KEY == "Invalid API key"
\* messages of a JSON decoding error of response.json() (a ValueError)
MSG_JSON_EXPECTING == "Expecting value: line 1 column 1 (char 0)"
MSG_JSON_INVALID == "Invalid control character at: line 1 column 2 (char 1)"

\* "rate limit" in str(e).lower()
HasRateLimit(msg) == msg \in {MSG_RATE_LIMIT}

\* "invalid" in str(e).lower()
HasInvalid(msg) == msg \in {MSG_INVALID_KEY, MSG_JSON_INVALID}

NoExc == [cls |-> "none", msg |-> ""]

\* what the network does with one request: a response body, a timeout, an HTTP
\* error status, a body that is not JSON, or any other failure of the transport
NetKinds == {"ok", "timeout", "http429", "http401", "http500",
             "badjson", "badjson_ctrl", "connection"}

\* the result of _make_request for a network outcome: a returned content or a
\* raised exception
MakeRequest(net) ==
    CASE net.kind = "ok" ->
           [ok |-> TRUE, value |-> net.body, exc |-> NoExc]
      [] net.kind = "timeout" ->
           [ok |-> FALSE, value |-> <<>>, exc |-> [cls |-> "Timeout", msg |-> ""]]
      [] net.kind = "http429" ->
           [ok |-> FALSE, value |-> <<>>,
            exc |-> [cls |-> "ValueError", msg |-> MSG_RATE_LIMIT]]
      [] net.kind = "http401" ->
           [ok |-> FALSE, value |-> <<>>,
            exc |-> [cls |-> "ValueError", msg |-> MSG_INVALID_KEY]]
      [] net.kind = "http500" ->
           [ok |-> FALSE, value |-> <<>>, exc |-> [cls |-> "HTTPError", msg |-> ""]]
      [] net.kind = "badjson" ->
           [ok |-> FALSE, value |-> <<>>,
            exc |-> [cls |-> "ValueError", msg |-> MSG_JSON_EXPECTING]]
      [] net.kind = "badjson_ctrl" ->
           [ok |-> FALSE, value |-> <<>>,
            exc |-> [cls |-> "ValueError", msg |-> MSG_JSON_INVALID]]
      [] OTHER ->
           [ok |-> FALSE, value |-> <<>>,
            exc |-> [cls |-> "ConnectionError", msg |-> ""]]

(***************************************************************************)
(* _retry_request.  The state of one call is                               *)
(*   [max_retries, attempt, made, state, value, exc, slept, errors]        *)
(* attempt is the loop variable, made counts the calls of _make_request,   *)
(* state is "trying", "returned" or "raised", slept lists the arguments of *)
(* the calls of time.sleep and errors the exceptions _make_request raised, *)
(* both in order.                                                          *)
(***************************************************************************)
\* "max_retries or Config.MAX_RETRIES"
EffectiveMaxRetries(arg) == IF arg = 0 THEN MAX_RETRIES ELSE arg

RetryStart(arg) ==
    [max_retries |-> EffectiveMaxRetries(arg), attempt |-> 0, made |-> 0,
     state |-> "trying", value |-> <<>>, exc |-> NoExc, slept |-> <<>>,
     errors |-> <<>>]

\* a timeout delay that does not grow with the attempt
TimeoutWaitFlat(attempt) == RETRY_DELAY

\* "except requests.exceptions.Timeout": wait_time
TimeoutWait(attempt) == RETRY_DELAY * (attempt + 1)

\* a classification that forgets the rate limit
DontRetryAuthOnly(exc) == HasInvalid(exc.msg)

\* "except ValueError": the failures that are raised at once
DontRetry(exc) == HasRateLimit(exc.msg) \/ HasInvalid(exc.msg)

\* "except ValueError": wait_time
ValueErrorWait(attempt) == RETRY_DELAY * (attempt + 1)

\* a delay of the last handler that is not doubled
UnexpectedWaitSingle(attempt) == RETRY_DELAY * (attempt + 1)

\* a delay of the last handler that is tripled
UnexpectedWaitTriple(attempt) == RETRY_DELAY * (attempt + 1) * 3

\* "except Exception": wait_time
UnexpectedWait(attempt) == RETRY_DELAY * (attempt + 1) * 2

\* the handler that catches an exception of _make_request
WaitTime(exc, attempt) ==
    CASE exc.cls = "Timeout" -> TimeoutWait(attempt)
      [] exc.cls = "ValueError" -> ValueErrorWait(attempt)
      [] OTHER -> UnexpectedWait(attempt)

\* a test that allows one attempt more
AttemptsRemainOneMore(rr) == rr.attempt < rr.max_retries

\* "if attempt < max_retries - 1"
AttemptsRemain(rr) == rr.attempt < rr.max_retries - 1

\* one iteration of "for attempt in range(max_retries)" with the network outcome net
RetryIter(rr, net) ==
    LET res == MakeRequest(net)
        tried == [rr EXCEPT !.made = @ + 1,
                            !.errors = IF res.ok THEN @ ELSE Append(@, res.exc)]
    IN  IF res.ok
        THEN [tried EXCEPT !.state = "returned", !.value = res.value]
        ELSE IF (res.exc.cls = "ValueError" /\ DontRetry(res.exc))
                \/ ~AttemptsRemain(rr)
        THEN [tried EXCEPT !.state = "raised", !.exc = res.exc]
        ELSE [tried EXCEPT !.attempt = @ + 1,
                           !.slept = Append(@, WaitTime(res.exc, rr.attempt))]

(***************************************************************************)
(* summarize_text.  The state of one call is [st, rr, outcome, ret]: st is *)
(* "idle", "queued", "running" or "done", rr the state of its              *)
(* _retry_request, outcome "none", "value" or "raised", ret the returned   *)
(* text.                                                                   *)
(***************************************************************************)
IdleCall ==
    [st |-> "idle", length |-> "", rr |-> RetryStart(0), outcome |-> "none",
     ret |-> <<>>]

\* the call is entered with a text and a length
EnterCall(length) == [IdleCall EXCEPT !.st = "running", !.length = length]

\* "if not text or not text.strip(): return text"
ReturnBlank(call, text) ==
    [call EXCEPT !.st = "done", !.outcome = "value", !.ret = text]

\* a try block with the test of the summary inverted
AfterRetryInverted(call, text, rr) ==
    IF rr.state = "returned" /\ rr.value = <<>>
    THEN [call EXCEPT !.st = "done", !.rr = rr, !.outcome = "value",
                      !.ret = rr.value]
    ELSE [call EXCEPT !.st = "done", !.rr = rr, !.outcome = "value",
                      !.ret = text]

\* a try block without the handler of the exceptions of _retry_request
AfterRetryRaises(call, text, rr) ==
    IF rr.state = "raised"
    THEN [call EXCEPT !.st = "done", !.rr = rr, !.outcome = "raised"]
    ELSE [call EXCEPT !.st = "done", !.rr = rr, !.outcome = "value",
                      !.ret = IF rr.value # <<>> THEN rr.value ELSE text]

\* the try block of summarize_text once _retry_request has ended in rr
AfterRetry(call, text, rr) ==
    IF rr.state = "returned" /\ rr.value # <<>>
    THEN [call EXCEPT !.st = "done", !.rr = rr, !.outcome = "value",
                      !.ret = rr.value]
    ELSE [call EXCEPT !.st = "done", !.rr = rr, !.outcome = "value",
                      !.ret = text]

\* what an invocation of summarize_text_chunks keeps of a call: while it runs
\* its state without the sleeps and the exceptions caught, afterwards what the
\* call ended with and whether its request returned or raised
FutureOf(call) ==
    IF call.st = "done"
    THEN [call EXCEPT !.rr = [RetryStart(0) EXCEPT !.state = call.rr.state]]
    ELSE [call EXCEPT !.rr.slept = <<>>, !.rr.errors = <<>>]

\* one request of a running call on a text that is not blank
CallRequest(call, text, net) ==
    LET rr == RetryIter(call.rr, net)
    IN  IF rr.state = "trying" THEN [call EXCEPT !.rr = rr]
        ELSE AfterRetry(call, text, rr)

(***************************************************************************)
(* The inputs of an invocation.                                            *)
(***************************************************************************)
Letters == <<"a", "b", "c", "d", "e">>

\* a paragraph of words, different for each position k
WordPara(k) == Rep(Letters[((k - 1) % Len(Letters)) + 1], 4)

\* a paragraph of whitespace
BlankPara == <<" ", "\n", "\t">>

\* a paragraph longer than the prefix kept of a failed chunk
LongPara == Rep("x", FALLBACK_PREFIX + 1)

TextKinds == {"words", "blank"}

\* the k-th paragraph of a text of a kind; in a text of words the second
\* paragraph is a long one and every fourth is blank
ParaOf(kind, k) ==
    IF kind = "blank" \/ k % 4 = 0 THEN BlankPara
    ELSE IF k = 2 THEN LongPara
    ELSE WordPara(k)

\* the text of n paragraphs of a kind
TextOf(kind, n) == Join([k \in 1..n |-> ParaOf(kind, k)])

Texts == {TextOf(kind, n) : kind \in TextKinds, n \in 0..MaxParas}

\* 0 stands for an omitted (None) or zero argument
ChunkSizeArgs == {0, SmallChunk, MidChunk}

Lengths == {"medium", "long"}

\* a completion the endpoint may return for a request about text
Summary(text) == <<"#">> \o Take(text, 1)

Responses(text) == {<<>>, Summary(text)}

\* the outcomes of the network for a request about text
NetOutcomes(text) ==
    {[kind |-> "ok", body |-> b] : b \in Responses(text)}
    \cup {[kind |-> k, body |-> <<>>] : k \in NetKinds \ {"ok"}}

(***************************************************************************)
(* summarize_text_chunks: the state of one invocation.                     *)
(***************************************************************************)
VARIABLES
    text,             \* the text argument
    chunk_size_arg,   \* the chunk_size argument (0: omitted)
    length,           \* the length argument
    max_workers,      \* the max_workers argument
    has_callback,     \* whether a progress_callback is given
    pc,               \* where the calling thread is
    chunks,           \* the chunks, chunk idx at position idx + 1
    submitted,        \* the number of chunks submitted to the executor
    futures,          \* idx -> the summarize_text call of chunk idx
    chunk_summaries,  \* idx -> the result slot of chunk idx
    writes,           \* idx -> how many times the slot was assigned
    collected,        \* the indices as_completed has yielded
    completed,        \* the counter "completed"
    progress,         \* the calls of progress_callback, <<completed, total>>
    combined_summary, \* the joined chunk summaries
    main,             \* the summarize_text call made by the calling thread
    result,           \* the returned text
    network_used,     \* whether _make_request was called in this invocation
    out_of_order,     \* whether as_completed yielded a chunk after a later one
    retry_arg,        \* the max_retries argument of a direct _retry_request
    retry,            \* the state of a direct _retry_request call
    pdf,              \* the PDF file a PDFParser is constructed on
    parse_result,     \* the result dictionary of PDFParser.parse
    range_args,       \* the arguments <<start_page, end_page>> of extract_page_range
    range_result,     \* the result dictionary of extract_page_range
    options,          \* the keyword arguments of TextPreprocessor.clean_text
    cleaned,          \* what the successive calls of clean_text returned
    normalized,       \* what the call of normalize_whitespace returned
    target_encoding,  \* the target_encoding argument of normalize_encoding
    step_result,      \* what the call of a single cleaning step returned
    aliased,          \* whether all_tables holds the table objects of the pages
    pdf_result        \* the dictionary preprocess_pdf_result returned

vars == <<text, chunk_size_arg, length, max_workers, has_callback, pc, chunks,
          submitted, futures, chunk_summaries, writes, collected, completed,
          progress, combined_summary, main, result, network_used,
          out_of_order, retry_arg, retry, pdf, parse_result, range_args,
          range_result, options, cleaned, normalized, target_encoding, step_result,
          aliased, pdf_result>>

inputs == <<text, chunk_size_arg, length, max_workers, has_callback>>

retry_vars == <<retry_arg, retry>>

parser_vars == <<pdf, parse_result, range_args, range_result>>

cleaner_vars == <<options, cleaned, normalized, target_encoding, step_result,
                  aliased, pdf_result>>

doc_vars == <<parser_vars, cleaner_vars>>

chunk_vars == <<inputs, pc, chunks, submitted, futures, chunk_summaries, writes,
                collected, completed, progress, combined_summary, main,
                result, network_used, out_of_order>>

chunk_size == EffectiveChunkSize(chunk_size_arg)

\* len(chunks)
NChunks == Len(chunks)

Indices == 0..(NChunks - 1)

\* chunks[idx]
Chunk(idx) == chunks[idx + 1]

\* chunks[idx][:500] + "..."
Fallback(idx) == Take(Chunk(idx), FALLBACK_PREFIX) \o ELLIPSIS

\* 'short' if len(chunks) > 1 else length
ChunkLength == IF NChunks > 1 THEN "short" ELSE length

\* the calls a worker thread of the pool is executing
Running == {i \in DOMAIN futures : futures[i].st = "running"}

Queued == {i \in DOMAIN futures : futures[i].st = "queued"}

\* no parser and no preprocessor is in use
DocIdle ==
    /\ pdf = [can_open |-> FALSE, pages |-> <<>>]
    /\ parse_result = <<>>
    /\ range_args = <<>>
    /\ range_result = <<>>
    /\ options = <<>>
    /\ cleaned = <<>>
    /\ normalized = <<>>
    /\ target_encoding = "utf-8"
    /\ step_result = <<>>
    /\ aliased = FALSE
    /\ pdf_result = <<>>

\* no invocation has done anything yet
Fresh ==
    /\ chunks = <<>>
    /\ submitted = 0
    /\ futures = <<>>
    /\ chunk_summaries = <<>>
    /\ writes = <<>>
    /\ collected = {}
    /\ completed = 0
    /\ progress = <<>>
    /\ combined_summary = <<>>
    /\ main = IdleCall
    /\ result = <<>>
    /\ network_used = FALSE
    /\ out_of_order = FALSE

Init ==
    /\ text \in Texts
    /\ chunk_size_arg \in ChunkSizeArgs
    /\ length \in Lengths
    /\ max_workers \in {1, MaxWorkersArg}
    /\ has_callback \in BOOLEAN
    /\ pc = "start"
    /\ Fresh
    /\ retry_arg = 0
    /\ retry = RetryStart(0)
    /\ DocIdle

(***************************************************************************)
(* summarize_text_chunks: the steps of the calling thread and the workers. *)
(***************************************************************************)
\* the chunk decision and the splitting
Start ==
    /\ pc = "start"
    /\ IF Len(text) <= chunk_size
       THEN /\ pc' = "direct"
            /\ main' = EnterCall(length)
            /\ UNCHANGED <<chunks, futures, chunk_summaries, writes>>
       ELSE LET cs == MakeChunks(text, chunk_size)
            IN  /\ pc' = "submit"
                /\ chunks' = cs
                /\ futures' = [i \in 0..(Len(cs) - 1) |-> IdleCall]
                /\ chunk_summaries' = [i \in 0..(Len(cs) - 1) |-> <<>>]
                /\ writes' = [i \in 0..(Len(cs) - 1) |-> 0]
                /\ UNCHANGED main
    /\ UNCHANGED <<inputs, retry_vars, doc_vars,
                   out_of_order,
                   submitted, collected, completed, progress,
                   combined_summary, result, network_used>>

\* executor.submit(self.summarize_text, chunk, ...) for the next chunk, in
\* the order of enumerate(chunks)
Submit ==
    /\ pc = "submit"
    /\ submitted < NChunks
    /\ futures' = [futures EXCEPT ![submitted] =
                       [IdleCall EXCEPT !.st = "queued", !.length = ChunkLength]]
    /\ submitted' = submitted + 1
    /\ pc' = IF submitted + 1 = NChunks THEN "collect" ELSE "submit"
    /\ UNCHANGED <<inputs, retry_vars, doc_vars,
                   out_of_order,
                   chunks, chunk_summaries, writes, collected,
                   completed, progress, combined_summary, main, result,
                   network_used>>

\* a pool that starts a thread for every work item
WorkerAlwaysFree == TRUE

\* whether the pool has a thread for another work item
WorkerFree == Cardinality(Running) < max_workers

\* the work item a free worker takes from the queue of the executor
NextQueued == CHOOSE i \in Queued : \A j \in Queued : i <= j

\* a worker thread of the pool takes the oldest queued call
WorkerStart ==
    /\ Queued # {}
    /\ WorkerFree
    /\ futures' = [futures EXCEPT ![NextQueued].st = "running"]
    /\ UNCHANGED <<inputs, retry_vars, doc_vars,
                   out_of_order,
                   pc, chunks, submitted, chunk_summaries, writes,
                   collected, completed, progress, combined_summary, main,
                   result, network_used>>

\* a worker's summarize_text on a blank chunk
WorkerBlank(i) ==
    /\ i \in Running
    /\ Blank(Chunk(i))
    /\ futures' = [futures EXCEPT ![i] = ReturnBlank(@, Chunk(i))]
    /\ UNCHANGED <<inputs, retry_vars, doc_vars,
                   out_of_order,
                   pc, chunks, submitted, chunk_summaries, writes,
                   collected, completed, progress, combined_summary, main,
                   result, network_used>>

\* one request of a worker's summarize_text
WorkerRequest(i, net) ==
    /\ i \in Running
    /\ ~Blank(Chunk(i))
    /\ futures' = [futures EXCEPT ![i] = FutureOf(CallRequest(@, Chunk(i), net))]
    /\ network_used' = TRUE
    /\ UNCHANGED <<inputs, retry_vars, doc_vars,
                   out_of_order,
                   pc, chunks, submitted, chunk_summaries, writes,
                   collected, completed, progress, combined_summary, main,
                   result>>

\* the futures as_completed may yield next
Yieldable == {i \in DOMAIN futures : futures[i].st = "done"} \ collected

\* a progress report of the chunk index
ReportedIndex(idx) == idx + 1

\* the first argument of "progress_callback(completed, len(chunks))": the
\* counter after "completed += 1"
Reported(idx) == completed + 1

\* a slot index that counts the completions
SlotOfCompletion(idx) == Cardinality(collected)

\* "idx = future_to_index[future]": the slot of the future of chunk idx
SlotOf(idx) == idx

\* the body of "for future in as_completed(future_to_index)" for the future
\* of chunk idx; cb_raises: the progress callback raises
Collect(idx, cb_raises) ==
    /\ pc = "collect"
    /\ idx \in Yieldable
    /\ cb_raises => has_callback
    /\ collected' = collected \cup {idx}
    /\ out_of_order' = (out_of_order \/ \E j \in collected : j > idx)
    /\ IF futures[idx].outcome = "raised"
       THEN \* future.result() raises
            /\ chunk_summaries' =
                   [chunk_summaries EXCEPT ![SlotOf(idx)] = Fallback(SlotOf(idx))]
            /\ writes' = [writes EXCEPT ![SlotOf(idx)] = @ + 1]
            /\ UNCHANGED <<completed, progress>>
       ELSE /\ completed' = completed + 1
            /\ progress' = IF has_callback
                           THEN Append(progress, <<Reported(idx), NChunks>>)
                           ELSE progress
            /\ IF cb_raises
               THEN /\ chunk_summaries' =
                           [chunk_summaries EXCEPT
                                ![SlotOf(idx)] = Fallback(SlotOf(idx))]
                    /\ writes' = [writes EXCEPT ![SlotOf(idx)] = @ + 2]
               ELSE /\ chunk_summaries' =
                           [chunk_summaries EXCEPT
                                ![SlotOf(idx)] = futures[idx].ret]
                    /\ writes' = [writes EXCEPT ![SlotOf(idx)] = @ + 1]
    /\ UNCHANGED <<inputs, retry_vars, doc_vars, pc, chunks, submitted, futures,
                   combined_summary, main, result, network_used>>

\* a final summary whenever there are several chunks
NeedsFinalAlways(combined) == NChunks > 1

\* "len(chunks) > 1 and len(combined_summary) > chunk_size"
NeedsFinal(combined) == NChunks > 1 /\ Len(combined) > chunk_size

\* a loop that ends at the first completed future
AnyCollected == collected # {}

\* as_completed is exhausted and the executor has shut down
AllCollected == collected = Indices

\* chunk_summaries as a list
SummaryList == [k \in 1..NChunks |-> chunk_summaries[k - 1]]

\* the join of the chunk summaries and the decision on a final summary
Combine ==
    /\ pc = "collect"
    /\ AllCollected
    /\ LET combined == Join(SummaryList)
       IN  /\ combined_summary' = combined
           /\ IF NeedsFinal(combined)
              THEN /\ pc' = "final"
                   /\ main' = EnterCall(length)
                   /\ UNCHANGED result
              ELSE /\ pc' = "done"
                   /\ result' = combined
                   /\ UNCHANGED main
    /\ UNCHANGED <<inputs, retry_vars, doc_vars,
                   out_of_order,
                   chunks, submitted, futures, chunk_summaries,
                   writes, collected, completed, progress, network_used>>

\* the text of the summarize_text call of the calling thread
MainText == IF pc = "final" THEN combined_summary ELSE text

\* the calling thread returns what its summarize_text call ended with
MainEnds(call) ==
    /\ main' = call
    /\ IF call.st = "done"
       THEN /\ pc' = "done"
            /\ result' = call.ret
       ELSE UNCHANGED <<pc, result>>

\* the calling thread's summarize_text on a blank text
MainBlank ==
    /\ pc \in {"direct", "final"}
    /\ main.st = "running"
    /\ Blank(MainText)
    /\ MainEnds(ReturnBlank(main, MainText))
    /\ UNCHANGED <<inputs, retry_vars, doc_vars,
                   out_of_order,
                   chunks, submitted, futures, chunk_summaries,
                   writes, collected, completed, progress, combined_summary,
                   network_used>>

\* one request of the calling thread's summarize_text
MainRequest(net) ==
    /\ pc \in {"direct", "final"}
    /\ main.st = "running"
    /\ ~Blank(MainText)
    /\ MainEnds(FutureOf(CallRequest(main, MainText, net)))
    /\ network_used' = TRUE
    /\ UNCHANGED <<inputs, retry_vars, doc_vars,
                   out_of_order,
                   chunks, submitted, futures, chunk_summaries,
                   writes, collected, completed, progress, combined_summary>>

Next ==
    \/ Start
    \/ Submit
    \/ WorkerStart
    \/ \E i \in DOMAIN futures : WorkerBlank(i)
    \/ \E i \in DOMAIN futures : \E net \in NetOutcomes(Chunk(i)) :
           WorkerRequest(i, net)
    \/ \E idx \in DOMAIN futures : \E cb_raises \in BOOLEAN :
           Collect(idx, cb_raises)
    \/ Combine
    \/ MainBlank
    \/ \E net \in NetOutcomes(MainText) : MainRequest(net)

Spec == Init /\ [][Next]_vars

(***************************************************************************)
(* A direct call _retry_request(messages, max_retries).                    *)
(***************************************************************************)
\* the user message of the direct call
RetryText == <<"q">>

\* 0 stands for an omitted (None) or zero argument
RetryArgs == 0..MaxRetriesArg

RetryInit ==
    /\ retry_arg \in RetryArgs
    /\ retry = RetryStart(retry_arg)
    /\ text = RetryText
    /\ chunk_size_arg = 0
    /\ length = "medium"
    /\ max_workers = DEFAULT_MAX_WORKERS
    /\ has_callback = FALSE
    /\ pc = "retry"
    /\ Fresh
    /\ DocIdle

\* one iteration of the loop of the direct call
RetryRequest(net) ==
    /\ pc = "retry"
    /\ retry.state = "trying"
    /\ retry' = RetryIter(retry, net)
    /\ UNCHANGED <<retry_arg, chunk_vars, doc_vars>>

RetryNext == \E net \in NetOutcomes(RetryText) : RetryRequest(net)

RetrySpec == RetryInit /\ [][RetryNext]_vars

(***************************************************************************)
(* The retry policy (RetrySpec).                                           *)
(***************************************************************************)
\* the exceptions _make_request raises for HTTP 401 and HTTP 429
AuthError == [cls |-> "ValueError", msg |-> MSG_INVALID_KEY]

RateLimitError == [cls |-> "ValueError", msg |-> MSG_RATE_LIMIT]

ClassifiedTerminal(exc) == exc \in {AuthError, RateLimitError}

IsTimeout(exc) == exc.cls = "Timeout"

\* the failed attempts of the direct call, numbered from 1
Failed == 1..Len(retry.errors)

\* C3: a failure of an attempt with HTTP 401 or HTTP 429 is the last thing
\* the call does: it is raised, nothing is slept for it and no attempt
\* follows it, so when it is the first attempt exactly one attempt is made
C3_TerminalRaisedAtOnce ==
    \A k \in Failed :
        ClassifiedTerminal(retry.errors[k]) =>
            /\ k = Len(retry.errors)
            /\ retry.state = "raised"
            /\ retry.exc = retry.errors[k]
            /\ retry.made = k
            /\ Len(retry.slept) = k - 1
            /\ ~ENABLED RetryNext

C3_Witness ==
    /\ retry.state = "raised"
    /\ retry.made = 1
    /\ retry.errors = <<RateLimitError>>
    /\ retry.slept = <<>>

\* C4: while every attempt so far has timed out, the k-th failed attempt
\* below the maximum is followed by a sleep of RETRY_DELAY * k; the call
\* ends at the maximum number of attempts (3 when none is given), without
\* a sleep after the last one, and raises the timeout
C4_TimeoutsLinearBackoff ==
    (\A k \in Failed : IsTimeout(retry.errors[k])) =>
        /\ retry.max_retries = (IF retry_arg = 0 THEN 3 ELSE retry_arg)
        /\ Len(retry.errors) <= retry.max_retries
        /\ \A k \in Failed : k < retry.max_retries =>
               /\ Len(retry.slept) >= k
               /\ retry.slept[k] = RETRY_DELAY * k
        /\ \A k \in 1..(Len(retry.slept) - 1) :
               retry.slept[k] <= retry.slept[k + 1]
        /\ Len(retry.errors) < retry.max_retries /\ retry.state # "returned" =>
               /\ retry.state = "trying"
               /\ ENABLED RetryNext
        /\ Len(retry.errors) = retry.max_retries =>
               /\ retry.state = "raised"
               /\ IsTimeout(retry.exc)
               /\ retry.made = retry.max_retries
               /\ Len(retry.slept) = retry.max_retries - 1
               /\ ~ENABLED RetryNext

C4_Witness ==
    /\ retry_arg = 0
    /\ retry.state = "raised"
    /\ retry.made = 3
    /\ \A k \in Failed : IsTimeout(retry.errors[k])
    /\ retry.slept = <<2, 4>>

FairInit ==
    /\ Init
    /\ ~has_callback
    /\ length = "medium"
    /\ chunk_size_arg # MidChunk

\* the threads keep running and every request to the network ends: a step
\* that can be taken is eventually taken
FairSpec == FairInit /\ [][Next]_vars /\ WF_vars(Next)

\* the chunk results have been joined
Combined == pc \in {"final", "done"} /\ NChunks >= 1

\* the request of the call of chunk idx ended with an exception
RequestFailed(idx) == futures[idx].rr.state = "raised"

\* what the slot of chunk idx holds once it is collected: what the call on
\* chunk idx returned, or the fallback made of chunk idx
EntryOf(idx) ==
    IF writes[idx] = 1 /\ futures[idx].outcome = "value"
    THEN futures[idx].ret
    ELSE Fallback(idx)

\* C1: whatever the order in which the chunk calls complete, the combined
\* output is the results of chunk 0, chunk 1, ..., chunk N-1 joined in this
\* order, each the result of the call on that very chunk
C1_CombinedInIndexOrder ==
    Combined /\ NChunks > 1 =>
        /\ combined_summary = Join([k \in 1..NChunks |-> EntryOf(k - 1)])
        /\ \A idx \in Indices :
               futures[idx].ret \in {Chunk(idx), Summary(Chunk(idx))}

C1_Witness ==
    /\ Combined
    /\ NChunks = 3
    /\ out_of_order
    /\ \A idx \in Indices : chunk_summaries[idx] = Summary(Chunk(idx))
    /\ combined_summary =
           Summary(Chunk(0)) \o SEP \o Summary(Chunk(1)) \o SEP \o Summary(Chunk(2))

\* C2 as claimed: once the results are joined, the entry of a chunk whose
\* request failed is the first 500 characters of the chunk followed by "...",
\* and the entry of every other chunk is what its call returned
C2_FailedChunkIsTruncatedPrefix ==
    Combined =>
        \A idx \in Indices :
            IF RequestFailed(idx)
            THEN chunk_summaries[idx] = Take(Chunk(idx), 500) \o <<".", ".", ".">>
            ELSE chunk_summaries[idx] = futures[idx].ret

\* C6 as claimed: when the last attempt of the request of a summarize_text
\* call fails, summarize_text ends by raising to its caller
C6_ExhaustionRaisedToCaller ==
    [][(/\ main.st = "running"
        /\ main.rr.attempt = MAX_RETRIES - 1
        /\ main'.st = "done"
        /\ main'.rr.state = "raised")
       => main'.outcome = "raised"]_vars

\* C7 as claimed: an invocation on a blank text returns the text and never
\* calls the network
C7_BlankReturnedWithoutNetwork ==
    Blank(text) /\ pc # "retry" =>
        /\ ~network_used
        /\ pc = "done" => result = text
        /\ \A idx \in DOMAIN futures :
               futures[idx].st = "done" => futures[idx].ret = Chunk(idx)

\* a chunk call that was submitted and has not been started
Waiting(i) == i \in DOMAIN futures /\ futures[i].st = "queued"

Started(i) == i \in DOMAIN futures /\ futures[i].st \in {"running", "done"}

\* C8: never more than max_workers chunk calls run at once, a call is only
\* started while fewer than max_workers run, the calls are started in the
\* order of their submission, and every submitted call is eventually started:
\* whenever calls wait, later none of them waits any more
C8_BoundedPool ==
    /\ [](Cardinality(Running) <= max_workers)
    /\ [][\A i \in DOMAIN futures :
              Waiting(i) /\ futures'[i].st = "running" =>
                  /\ Cardinality(Running) < max_workers
                  /\ \A j \in 0..(i - 1) : Started(j)]_vars
    /\ [][\A i \in DOMAIN futures : Started(i) => Started(i)']_vars
    /\ (Queued # {}) ~> (Queued = {})

C8_Witness ==
    /\ max_workers > 1
    /\ Cardinality(Running) = max_workers
    /\ Queued # {}

C10_SlotWrittenOnce ==
    /\ \A idx \in DOMAIN writes : writes[idx] <= 1
    /\ Combined => \A idx \in Indices : writes[idx] = 1

(***************************************************************************)
(* The splitting step on arbitrary short texts (SplitSpec).                *)
(***************************************************************************)
\* the characters of the texts the splitting is tried on
SplitAlphabet == {"a", "\n"}

\* every text over the alphabet up to the longest length
SplitTexts == UNION {[1..n -> SplitAlphabet] : n \in 0..MaxTextLen}

SplitArgs == 0..MaxChunkArg

SplitInit ==
    /\ text \in SplitTexts
    /\ chunk_size_arg \in SplitArgs
    /\ length = "medium"
    /\ max_workers = DEFAULT_MAX_WORKERS
    /\ has_callback = FALSE
    /\ pc = "start"
    /\ Fresh
    /\ retry_arg = 0
    /\ retry = RetryStart(0)
    /\ DocIdle

SplitNext == Start

SplitSpec == SplitInit /\ [][SplitNext]_vars

\* the text was longer than the threshold and has been split
WasSplit == pc = "submit" /\ Len(text) > chunk_size

\* the paragraphs of the chunks cs from chunk k on, in order
RECURSIVE ParasFrom(_, _)
ParasFrom(cs, k) ==
    IF k > Len(cs) THEN <<>> ELSE Split(cs[k]) \o ParasFrom(cs, k + 1)

\* the number of paragraphs of a chunk and the sum of their lengths
NParas(chunk) == Len(Split(chunk))

ParaChars(chunk) == Len(chunk) - Len(SEP) * (NParas(chunk) - 1)

\* C11: the chunks of a text longer than the threshold are consecutive
\* non-empty groups of its paragraphs in order: the paragraphs of the chunks,
\* chunk after chunk, are the paragraphs of the text, and the chunks joined
\* with the separator are the text
C11_ChunksPartitionParagraphs ==
    WasSplit =>
        /\ NChunks >= 1
        /\ NChunks <= Len(Split(text))
        /\ ParasFrom(chunks, 1) = Split(text)
        /\ Join(chunks) = text

C11_Witness ==
    /\ WasSplit
    /\ NChunks = 2
    /\ NParas(chunks[1]) = 2
    /\ Len(Split(text)) = 3
    /\ \E k \in 1..3 : Split(text)[k] = <<>>

\* C12 as claimed: no chunk is longer than the threshold
C12_ChunkWithinThreshold ==
    WasSplit => \A k \in 1..NChunks : Len(chunks[k]) <= chunk_size

\* C12 as amended: the paragraphs of a chunk of several paragraphs have at
\* most threshold characters together, the separators between them not
\* counted; only a chunk that is one paragraph may have more
C12_ParagraphsWithinThreshold ==
    WasSplit =>
        \A k \in 1..NChunks :
            NParas(chunks[k]) > 1 => ParaChars(chunks[k]) <= chunk_size

C12_Witness ==
    /\ WasSplit
    /\ \E k \in 1..NChunks :
           /\ NParas(chunks[k]) > 1
           /\ ParaChars(chunks[k]) = chunk_size
           /\ Len(chunks[k]) > chunk_size
    /\ \E k \in 1..NChunks :
           NParas(chunks[k]) = 1 /\ Len(chunks[k]) > chunk_size

\* C13: the step that joins the chunk results starts a summarize_text call on
\* the joined text, at the length of the invocation, exactly when there are
\* several chunks and the joined text is longer than the threshold, and what
\* that call returns is the result; otherwise the joined text is the result,
\* no call is made and nothing happens after it
C13_FinalSummaryIffStillLong ==
    /\ [][pc = "collect" /\ pc' # "collect" =>
              LET joined == Join(SummaryList)
              IN  /\ combined_summary' = joined
                  /\ IF Len(chunks) > 1 /\ Len(joined) > chunk_size
                     THEN /\ pc' = "final"
                          /\ main'.st = "running"
                          /\ main'.length = length
                          /\ result' = result
                     ELSE /\ pc' = "done"
                          /\ result' = joined
                          /\ main' = IdleCall
                          /\ network_used' = network_used]_vars
    /\ [](pc = "done" /\ NChunks >= 1 =>
              /\ ~ENABLED Next
              /\ IF Len(chunks) > 1 /\ Len(combined_summary) > chunk_size
                 THEN /\ main.st = "done"
                      /\ main.length = length
                      /\ result = main.ret
                 ELSE /\ main = IdleCall
                      /\ result = combined_summary)

C13_Witness ==
    /\ pc = "done"
    /\ NChunks = 2
    /\ chunk_size = MidChunk
    /\ Len(combined_summary) = chunk_size
    /\ result = combined_summary
    /\ network_used

(***************************************************************************)
(* PDFParser (pdf_parser.py).  A page of the PDF is a record               *)
(*   [page_number, raw_text, words, text_raises, tables, tables_raise,     *)
(*    width, height]                                                       *)
(* words is what page.extract_words returns, a sequence of tokens          *)
(* [top, text]; tables is what page.extract_tables returns, a sequence of  *)
(* tables, each a sequence of rows of cells [isnone, s]; text_raises and   *)
(* tables_raise tell whether pdfplumber raises in the text or the table    *)
(* extraction of the page.                                                 *)
(***************************************************************************)
\* "line_threshold = 10"
LINE_THRESHOLD == 10

Abs(x) == IF x < 0 THEN 0 - x ELSE x

\* sep.join(parts) from part k on
RECURSIVE JoinWithFrom(_, _, _)
JoinWithFrom(parts, sep, k) ==
    IF k > Len(parts) THEN <<>>
    ELSE IF k = Len(parts) THEN parts[k]
    ELSE parts[k] \o sep \o JoinWithFrom(parts, sep, k + 1)

JoinWith(parts, sep) == JoinWithFrom(parts, sep, 1)

\* the elements of s at the positions in keep, in order
RECURSIVE PickFrom(_, _, _)
PickFrom(s, keep, i) ==
    IF i > Len(s) THEN <<>>
    ELSE (IF i \in keep THEN <<s[i]>> ELSE <<>>) \o PickFrom(s, keep, i + 1)

Pick(s, keep) == PickFrom(s, keep, 1)

\* str.strip()
Strip(s) ==
    LET solid == {i \in 1..Len(s) : s[i] \notin Whitespace \cup {"\r", "\f"}}
    IN  IF solid = {} THEN <<>>
        ELSE SubSeq(s, CHOOSE i \in solid : \A j \in solid : i <= j,
                       CHOOSE i \in solid : \A j \in solid : j <= i)

\* a comparison that also joins tokens exactly the threshold apart
SameLineInclusive(current_y, last_y) == Abs(current_y - last_y) <= LINE_THRESHOLD

\* "abs(current_y - last_y) < line_threshold"
SameLine(current_y, last_y) == Abs(current_y - last_y) < LINE_THRESHOLD

\* one iteration of "for word in words" on the loop state
\* [paragraphs, current_para, last_y], last_y = [set, y] (not set: None)
GroupIter(st, word) ==
    LET grouped ==
            IF ~st.last_y.set \/ SameLine(word.top, st.last_y.y)
            THEN [st EXCEPT !.current_para = Append(@, word.text)]
            ELSE [st EXCEPT
                    !.paragraphs = IF st.current_para # <<>>
                                   THEN Append(@, JoinWith(st.current_para, <<" ">>))
                                   ELSE @,
                    !.current_para = <<word.text>>]
    IN  [grouped EXCEPT !.last_y = [set |-> TRUE, y |-> word.top]]

RECURSIVE GroupLoop(_, _, _)
GroupLoop(st, words, k) ==
    IF k > Len(words) THEN st ELSE GroupLoop(GroupIter(st, words[k]), words, k + 1)

\* the paragraphs of the words of a page
GroupWords(words) ==
    LET st == GroupLoop([paragraphs |-> <<>>, current_para |-> <<>>,
                         last_y |-> [set |-> FALSE, y |-> 0]], words, 1)
    IN  IF st.current_para # <<>>
        THEN Append(st.paragraphs, JoinWith(st.current_para, <<" ">>))
        ELSE st.paragraphs

\* a record of a failed page that keeps the number of words
StaleTextRecord(page) ==
    [page_number |-> page.page_number, text |-> <<>>, paragraphs |-> <<>>,
     word_count |-> Len(page.words), width |-> 0, height |-> 0]

\* a record of a failed page without its page number
UnnumberedTextRecord(page) ==
    [page_number |-> 0, text |-> <<>>, paragraphs |-> <<>>,
     word_count |-> 0, width |-> 0, height |-> 0]

\* the dictionary returned by the except branch of extract_text_from_page
EmptyTextRecord(page) ==
    [page_number |-> page.page_number, text |-> <<>>, paragraphs |-> <<>>,
     word_count |-> 0, width |-> 0, height |-> 0]

\* extract_text_from_page(page)
ExtractText(page) ==
    IF page.text_raises THEN EmptyTextRecord(page)
    ELSE [page_number |-> page.page_number, text |-> page.raw_text,
          paragraphs |-> GroupWords(page.words),
          word_count |-> Len(page.words),
          width |-> page.width, height |-> page.height]

\* "cell.strip() if cell else ''"
CleanCell(cell) == IF cell.isnone \/ cell.s = <<>> THEN <<>> ELSE Strip(cell.s)

\* the dictionary made of the table at position k of page.extract_tables()
TableRecord(table, k) ==
    LET cleaned_table == [r \in 1..Len(table) |->
                             [c \in 1..Len(table[r]) |-> CleanCell(table[r][c])]]
    IN  [table_number |-> k, data |-> cleaned_table, rows |-> Len(cleaned_table),
         columns |-> IF cleaned_table # <<>> THEN Len(cleaned_table[1]) ELSE 0]

\* extract_tables_from_page(page): the empty tables are skipped
ExtractTables(page) ==
    IF page.tables_raise THEN <<>>
    ELSE Pick([k \in 1..Len(page.tables) |-> TableRecord(page.tables[k], k)],
              {k \in 1..Len(page.tables) : page.tables[k] # <<>>})

\* the page dictionary {**page_text_data, 'tables': page_tables}
PageData(page_text_data, page_tables) ==
    [page_number |-> page_text_data.page_number, text |-> page_text_data.text,
     paragraphs |-> page_text_data.paragraphs,
     word_count |-> page_text_data.word_count,
     width |-> page_text_data.width, height |-> page_text_data.height,
     tables |-> page_tables]

\* the default of metadata.get
UNKNOWN == <<"U", "n", "k", "n", "o", "w", "n">>

\* self.metadata after extract_metadata: the title of the file, or 'Unknown',
\* and the number of pages
ExtractMetadata(file) ==
    [title |-> IF "title" \in DOMAIN file THEN file.title ELSE UNKNOWN,
     num_pages |-> Len(file.pages)]

\* the result dictionary of parse before the first page
EmptyResult(total_pages) ==
    [metadata |-> ExtractMetadata(pdf),
     pages |-> <<>>, all_text |-> <<>>, all_tables |-> <<>>,
     statistics |-> [total_pages |-> total_pages, total_words |-> 0,
                     total_tables |-> 0, total_paragraphs |-> 0]]

\* a word total that counts the paragraphs
AddParagraphsAsWords(total, page_text_data) ==
    total + Len(page_text_data.paragraphs)

\* "result['statistics']['total_words'] += page_text_data['word_count']"
AddWords(total, page_text_data) == total + page_text_data.word_count

\* a table total that counts one for a page
AddTablesOnce(total, page_tables) == total + 1

\* "result['statistics']['total_tables'] += len(page_tables)"
AddTables(total, page_tables) == total + Len(page_tables)

\* the body of the loop of parse for a page
AddPage(res, page) ==
    LET page_text_data == ExtractText(page)
        page_tables == ExtractTables(page)
    IN  [metadata |-> res.metadata,
         pages |-> Append(res.pages, PageData(page_text_data, page_tables)),
         all_text |-> res.all_text \o page_text_data.text \o SEP,
         all_tables |-> res.all_tables \o page_tables,
         statistics |->
             [total_pages |-> res.statistics.total_pages,
              total_words |-> AddWords(res.statistics.total_words, page_text_data),
              total_tables |-> AddTables(res.statistics.total_tables, page_tables),
              total_paragraphs |-> res.statistics.total_paragraphs
                                   + Len(page_text_data.paragraphs)]]

\* len(pdf.pages)
NPages == Len(pdf.pages)

\* pdf.pages[page_num], a list index that may be negative
PageAt(page_num) ==
    IF page_num >= 0 THEN pdf.pages[page_num + 1] ELSE pdf.pages[NPages + page_num + 1]

\* whether pdf.pages[page_num] raises IndexError
IndexError(page_num) == page_num >= NPages \/ page_num < 0 - NPages

\* range(start_page - 1, min(end_page, len(pdf.pages))) as a sequence
RangeOf(start_page, end_page) ==
    LET first == start_page - 1
        stop == Min(end_page, NPages)
    IN  [k \in 1..(stop - first) |-> first + k - 1]

\* the body of the loop of extract_page_range for a page
AddRangePage(res, page) ==
    LET page_text_data == ExtractText(page)
        page_tables == ExtractTables(page)
    IN  [pages |-> Append(res.pages, PageData(page_text_data, page_tables)),
         text |-> res.text \o page_text_data.text \o SEP,
         tables |-> res.tables \o page_tables]

RECURSIVE RangeLoop(_, _, _)
RangeLoop(res, indices, k) ==
    IF k > Len(indices) THEN res
    ELSE RangeLoop(AddRangePage(res, PageAt(indices[k])), indices, k + 1)

(***************************************************************************)
(* The PDF files the parser is tried on.                                   *)
(***************************************************************************)
\* the vertical positions of the word tokens
Tops == {100, 105, 110, 120}

\* the words at the given tops, the k-th with a text of its own
WordsAt(tops) ==
    [k \in 1..Len(tops) |->
        [top |-> tops[k], text |-> <<Letters[((k - 1) % Len(Letters)) + 1]>>]]

\* every sequence of tops up to the largest number of tokens
TopSeqs == UNION {[1..n -> Tops] : n \in 0..MaxTokens}

\* a cell of a table of page.extract_tables(): a string or None
Cell(str) == [isnone |-> FALSE, s |-> str]

NoneCell == [isnone |-> TRUE, s |-> <<>>]

\* a table of one row
ATable == << <<Cell(<<" ", "a", " ">>), NoneCell>> >>

\* what page.extract_tables() returns: nothing, or an empty table and a table
TableLists == {<<>>, <<<<>>, ATable>>}

\* a page of words at tops; its number is set by the document
MakePage(tops, text_raises, tables, tables_raise) ==
    [page_number |-> 0,
     raw_text |-> JoinWith([k \in 1..Len(tops) |-> WordsAt(tops)[k].text], <<" ">>),
     words |-> WordsAt(tops), text_raises |-> text_raises,
     tables |-> tables, tables_raise |-> tables_raise,
     width |-> 612, height |-> 792]

\* the pages of the documents of several pages
PageKinds ==
    {MakePage(tops, tr, tables, br) :
        tops \in {<<100, 100, 100>>, <<100, 120>>}, tr \in BOOLEAN,
        tables \in TableLists, br \in BOOLEAN}

\* the pages that only differ in the positions of their words
TokenPages == {MakePage(tops, FALSE, <<>>, FALSE) : tops \in TopSeqs}

\* pdf.pages: page k has page_number k
Numbered(pages) == [k \in 1..Len(pages) |-> [pages[k] EXCEPT !.page_number = k]]

Documents ==
    {Numbered(pages) : pages \in UNION {[1..n -> PageKinds] : n \in 0..MaxPages}}
    \cup {Numbered(<<page>>) : page \in TokenPages}

\* the files: the ones pdfplumber opens and one it does not
PdfFiles ==
    {[can_open |-> TRUE, pages |-> d] : d \in Documents}
    \cup {[can_open |-> FALSE, pages |-> <<>>]}

\* the start_page and end_page arguments
RangeArgs == (0 - 1)..(MaxPages + 1)

\* no summarization is in progress
SummarizerIdle ==
    /\ text = <<>>
    /\ chunk_size_arg = 0
    /\ length = "medium"
    /\ max_workers = DEFAULT_MAX_WORKERS
    /\ Fresh
    /\ retry_arg = 0
    /\ retry = RetryStart(0)

ParseInit ==
    /\ pdf \in PdfFiles
    /\ has_callback \in BOOLEAN
    /\ pc = "parser"
    /\ parse_result = <<>>
    /\ range_args = <<>>
    /\ range_result = <<>>
    /\ options = <<>>
    /\ cleaned = <<>>
    /\ normalized = <<>>
    /\ target_encoding = "utf-8"
    /\ step_result = <<>>
    /\ aliased = FALSE
    /\ pdf_result = <<>>
    /\ SummarizerIdle

summarizer_vars ==
    <<text, chunk_size_arg, length, max_workers, chunks, submitted, futures,
      chunk_summaries, writes, collected, completed, combined_summary, main,
      result, network_used, out_of_order, retry_vars>>

\* parse up to the loop: the file is opened and the pages are counted
ParseOpen ==
    /\ pc = "parser"
    /\ IF pdf.can_open
       THEN /\ parse_result' = EmptyResult(NPages)
            /\ pc' = IF NPages = 0 THEN "parsed" ELSE "parsing"
       ELSE /\ pc' = "parse_raised"
            /\ UNCHANGED parse_result
    /\ UNCHANGED <<pdf, range_args, range_result, cleaner_vars, has_callback,
                   progress, summarizer_vars>>

\* one iteration of the loop of parse and, after the last one, the return;
\* cb_raises: the progress callback raises
ParsePage(cb_raises) ==
    /\ pc = "parsing"
    /\ cb_raises => has_callback
    /\ LET page_num == Len(parse_result.pages) + 1
       IN  /\ parse_result' = AddPage(parse_result, pdf.pages[page_num])
           /\ progress' = IF has_callback
                          THEN Append(progress,
                                      <<page_num, parse_result.statistics.total_pages>>)
                          ELSE progress
           /\ pc' = IF cb_raises THEN "parse_raised"
                    ELSE IF page_num = NPages THEN "parsed"
                    ELSE "parsing"
    /\ UNCHANGED <<pdf, range_args, range_result, cleaner_vars, has_callback,
                   summarizer_vars>>

\* extract_page_range(start_page, end_page)
ExtractPageRange(start_page, end_page) ==
    /\ pc = "parser"
    /\ range_args' = <<start_page, end_page>>
    /\ LET indices == RangeOf(start_page, end_page)
       IN  IF pdf.can_open /\ \A k \in 1..Len(indices) : ~IndexError(indices[k])
           THEN /\ range_result' =
                       RangeLoop([pages |-> <<>>, text |-> <<>>, tables |-> <<>>],
                                 indices, 1)
                /\ pc' = "ranged"
           ELSE /\ pc' = "range_raised"
                /\ UNCHANGED range_result
    /\ UNCHANGED <<pdf, parse_result, cleaner_vars, has_callback, progress,
                   summarizer_vars>>

ParseNext ==
    \/ ParseOpen
    \/ \E cb_raises \in BOOLEAN : ParsePage(cb_raises)
    \/ \E start_page \in RangeArgs : \E end_page \in RangeArgs :
           ExtractPageRange(start_page, end_page)

ParseSpec == ParseInit /\ [][ParseNext]_vars

(***************************************************************************)
(* The parser (ParseSpec).                                                 *)
(***************************************************************************)
\* parse has returned a document
Parsed == pc = "parsed"

\* the page records parse has built so far
PageRecords == IF pc \in {"parsing", "parsed"} THEN parse_result.pages ELSE <<>>

RECURSIVE SumFrom(_, _)
SumFrom(nums, k) == IF k > Len(nums) THEN 0 ELSE nums[k] + SumFrom(nums, k + 1)

SumSeq(nums) == SumFrom(nums, 1)

\* the positions of the words of a page that start a paragraph: the first
\* word and every word 10 or more away from the word before it
ParaStarts(words) ==
    {k \in 1..Len(words) :
        k = 1 \/ words[k].top - words[k - 1].top >= 10
              \/ words[k - 1].top - words[k].top >= 10}

\* the j-th paragraph start and the last word of its run
StartOf(words, j) ==
    CHOOSE b \in ParaStarts(words) :
        Cardinality({c \in ParaStarts(words) : c < b}) = j - 1

EndOf(words, j) ==
    IF j = Cardinality(ParaStarts(words)) THEN Len(words)
    ELSE StartOf(words, j + 1) - 1

\* the maximal runs of the words of a page, each as the texts of its words
\* joined by a space
RunsOf(words) ==
    [j \in 1..Cardinality(ParaStarts(words)) |->
        LET b == StartOf(words, j)
            e == EndOf(words, j)
        IN  JoinWith([k \in 1..(e - b + 1) |-> words[b + k - 1].text], <<" ">>)]

\* the tables pdfplumber finds on a page that have a row
FoundTables(page) == {k \in 1..Len(page.tables) : page.tables[k] # <<>>}

\* C14: in a document parse returns, total_words, total_paragraphs and
\* total_tables are the sums of the pages' word counts, paragraph counts and
\* table counts, total_tables is the length of all_tables and total_pages the
\* number of page records, whichever pages failed
C14_StatisticsAreSums ==
    Parsed =>
        LET pages == parse_result.pages
            stats == parse_result.statistics
        IN  /\ stats.total_words =
                   SumSeq([k \in 1..Len(pages) |-> pages[k].word_count])
            /\ stats.total_paragraphs =
                   SumSeq([k \in 1..Len(pages) |-> Len(pages[k].paragraphs)])
            /\ stats.total_tables =
                   SumSeq([k \in 1..Len(pages) |-> Len(pages[k].tables)])
            /\ stats.total_tables = Len(parse_result.all_tables)
            /\ stats.total_pages = Len(pages)

C14_Witness ==
    /\ Parsed
    /\ Len(parse_result.pages) = 2
    /\ pdf.pages[1].text_raises /\ ~pdf.pages[2].text_raises
    /\ parse_result.statistics.total_words = 3
    /\ parse_result.statistics.total_paragraphs = 1
    /\ parse_result.statistics.total_tables = 1

\* C15: the paragraphs of a page whose text extraction succeeds are the
\* maximal runs of its words, in order, in which each word is less than 10
\* from the word before it, every word in exactly one of them, none empty
C15_ParagraphsAreMaximalRuns ==
    \A k \in 1..Len(PageRecords) :
        ~pdf.pages[k].text_raises =>
            /\ PageRecords[k].paragraphs = RunsOf(pdf.pages[k].words)
            /\ \A j \in 1..Len(PageRecords[k].paragraphs) :
                   PageRecords[k].paragraphs[j] # <<>>
            /\ PageRecords[k].word_count = Len(pdf.pages[k].words)

C15_Witness ==
    /\ Parsed
    /\ NPages = 1
    /\ [k \in 1..Len(pdf.pages[1].words) |-> pdf.pages[1].words[k].top]
           = <<100, 105, 110, 120>>
    /\ parse_result.pages[1].paragraphs = <<<<"a", " ", "b", " ", "c">>, <<"d">>>>

\* C16: parse only raises when the file cannot be opened or the progress
\* callback raises; whichever page extractions raise, the document it returns
\* has one record for each page of the file, numbered 1, 2, ... in order, and
\* the record of a page whose extraction does not raise holds the text, the
\* word count, the paragraphs and the tables of that page
C16_PageFailureDoesNotAbort ==
    /\ pc = "parse_raised" => ~pdf.can_open \/ (has_callback /\ progress # <<>>)
    /\ Parsed =>
           /\ Len(parse_result.pages) = NPages
           /\ parse_result.statistics.total_pages = NPages
           /\ \A k \in 1..NPages :
                  LET page == pdf.pages[k]
                      rec == parse_result.pages[k]
                  IN  /\ rec.page_number = k
                      /\ ~page.text_raises =>
                             /\ rec.text = page.raw_text
                             /\ rec.word_count = Len(page.words)
                             /\ rec.paragraphs = RunsOf(page.words)
                      /\ ~page.tables_raise =>
                             Len(rec.tables) = Cardinality(FoundTables(page))

C16_Witness ==
    /\ Parsed
    /\ NPages = 2
    /\ pdf.pages[1].text_raises /\ pdf.pages[1].tables_raise
    /\ ~pdf.pages[2].text_raises /\ ~pdf.pages[2].tables_raise
    /\ parse_result.pages[1].page_number = 1
    /\ parse_result.pages[2].page_number = 2
    /\ parse_result.pages[2].paragraphs = <<<<"a", " ", "b", " ", "c">>>>
    /\ Len(parse_result.pages[2].tables) = 1

\* the pages of the file whose text extraction does not raise
TextPages == {k \in 1..NPages : ~pdf.pages[k].text_raises}

\* C17 as claimed: the record of a page whose text extraction raises has an
\* empty text, no words, no paragraphs and no tables, and only the other
\* pages count in the totals and in all_tables
C17_FailedPageEntirelyEmpty ==
    Parsed =>
        /\ \A k \in 1..NPages :
               pdf.pages[k].text_raises =>
                   /\ parse_result.pages[k].text = <<>>
                   /\ parse_result.pages[k].word_count = 0
                   /\ parse_result.pages[k].paragraphs = <<>>
                   /\ parse_result.pages[k].tables = <<>>
        /\ parse_result.statistics.total_tables =
               SumSeq([k \in 1..NPages |->
                          IF k \in TextPages
                          THEN Len(parse_result.pages[k].tables) ELSE 0])
        /\ Len(parse_result.all_tables) =
               SumSeq([k \in 1..NPages |->
                          IF k \in TextPages
                          THEN Len(parse_result.pages[k].tables) ELSE 0])

\* C17 as amended: the record of a page whose text extraction raises has an
\* empty text, no words and no paragraphs, and only the other pages count in
\* total_words and total_paragraphs; its tables are the ones the table
\* extraction of the page returns, none when that raises too, and they count
\* in total_tables and all_tables
C17_FailedPageTextEmpty ==
    Parsed =>
        /\ \A k \in 1..NPages :
               pdf.pages[k].text_raises =>
                   /\ parse_result.pages[k].text = <<>>
                   /\ parse_result.pages[k].word_count = 0
                   /\ parse_result.pages[k].paragraphs = <<>>
                   /\ Len(parse_result.pages[k].tables) =
                          IF pdf.pages[k].tables_raise THEN 0
                          ELSE Cardinality(FoundTables(pdf.pages[k]))
        /\ parse_result.statistics.total_words =
               SumSeq([k \in 1..NPages |->
                          IF k \in TextPages THEN Len(pdf.pages[k].words) ELSE 0])
        /\ parse_result.statistics.total_paragraphs =
               SumSeq([k \in 1..NPages |->
                          IF k \in TextPages
                          THEN Len(RunsOf(pdf.pages[k].words)) ELSE 0])
        /\ parse_result.statistics.total_tables =
               SumSeq([k \in 1..NPages |->
                          IF pdf.pages[k].tables_raise THEN 0
                          ELSE Cardinality(FoundTables(pdf.pages[k]))])
        /\ Len(parse_result.all_tables) = parse_result.statistics.total_tables

C17_Witness ==
    /\ Parsed
    /\ NPages = 2
    /\ pdf.pages[1].text_raises /\ ~pdf.pages[1].tables_raise
    /\ parse_result.pages[1].text = <<>>
    /\ parse_result.pages[1].word_count = 0
    /\ Len(parse_result.pages[1].tables) = 1
    /\ pdf.pages[2].text_raises /\ pdf.pages[2].tables_raise
    /\ parse_result.pages[2].tables = <<>>
    /\ parse_result.statistics.total_tables = 1

\* C18 as claimed: for a file that opens, extract_page_range(start, end)
\* does not raise and returns the pages numbered start..min(end, P) that
\* exist, in increasing order
C18_RangeIsClippedInterval ==
    /\ pc = "range_raised" => ~pdf.can_open
    /\ pc = "ranged" =>
           LET lo == IF range_args[1] < 1 THEN 1 ELSE range_args[1]
               hi == Min(range_args[2], NPages)
           IN  /\ Len(range_result.pages) = (IF hi >= lo THEN hi - lo + 1 ELSE 0)
               /\ \A k \in 1..Len(range_result.pages) :
                      range_result.pages[k].page_number = lo + k - 1

(***************************************************************************)
(* TextPreprocessor (text_preprocessor.py).  The regular expressions are   *)
(* modelled on the characters below.  Three letters stand for characters   *)
(* a TLA+ string cannot hold: "G" for U+1100 HANGUL CHOSEONG KIYEOK, "A"   *)
(* for U+1161 HANGUL JUNGSEONG A and "K" for U+AC00 HANGUL SYLLABLE GA,    *)
(* the NFC composition of the two; "S" stands for U+DC80, a surrogate code  *)
(* point on its own, which no codec encodes.                               *)
(***************************************************************************)
CHOSEONG == "G"
JUNGSEONG == "A"
SYLLABLE == "K"
SURROGATE == "S"

\* the characters \s matches
SpaceChars == {" ", "\t", "\n", "\r", "\f"}

\* the characters \w matches
WordChars == {"a", "1", "_", CHOSEONG, JUNGSEONG, SYLLABLE}

\* the punctuation special_char_pattern keeps (without the double quote,
\* the backslash and the backquote)
Punctuation ==
    {".", ",", "!", "?", ";", ":", "(", ")", "[", "]", "{", "}", "-", "'",
     "/", "@", "#", "$", "%", "&", "*", "+", "=", "<", ">", "|", "~"}

\* self.pdf_artifacts (the null character has no string here)
Artifacts == {"\f", "\r"}

\* the decimal digits, for str.isdigit()
Digits == {"0", "1", "2", "3", "4", "5", "6", "7", "8", "9"}

\* remove_pdf_artifacts(text)
remove_pdf_artifacts(str) ==
    IF str = <<>> THEN <<>>
    ELSE Pick(str, {i \in 1..Len(str) : str[i] \notin Artifacts})

\* unicodedata.normalize('NFC', text) from position i on
RECURSIVE ComposeFrom(_, _)
ComposeFrom(str, i) ==
    IF i > Len(str) THEN <<>>
    ELSE IF i < Len(str) /\ str[i] = CHOSEONG /\ str[i + 1] = JUNGSEONG
    THEN <<SYLLABLE>> \o ComposeFrom(str, i + 2)
    ELSE <<str[i]>> \o ComposeFrom(str, i + 1)

\* the target encodings: two codecs Python has and a name it does not know
Codecs == {"utf-8", "ascii", "no-such-codec"}

KnownCodecs == {"utf-8", "ascii"}

\* text.encode(target_encoding, errors='ignore').decode(target_encoding) with
\* a codec Python has: the characters the codec cannot encode are dropped
EncodeDecode(str, codec) ==
    IF codec = "ascii"
    THEN Pick(str, {i \in 1..Len(str) :
                       str[i] \notin {CHOSEONG, JUNGSEONG, SYLLABLE, SURROGATE}})
    ELSE Pick(str, {i \in 1..Len(str) : str[i] # SURROGATE})

\* normalize_encoding(text, target_encoding): with a codec Python does not
\* know encode raises LookupError and the handler returns text, which by then
\* is the NFC form
normalize_encoding_to(str, codec) ==
    IF str = <<>> THEN <<>>
    ELSE LET nfc == ComposeFrom(str, 1)
         IN  IF codec \in KnownCodecs THEN EncodeDecode(nfc, codec) ELSE nfc

\* normalize_encoding(text), target_encoding='utf-8'
normalize_encoding(str) == normalize_encoding_to(str, "utf-8")

\* the last position of the run of whitespace that follows position i
SpaceRunEnd(str, i) ==
    CHOOSE j \in i..Len(str) :
        /\ \A m \in (i + 1)..j : str[m] \in SpaceChars
        /\ j = Len(str) \/ str[j + 1] \notin SpaceChars

\* the positions a match of '-\s*\n\s*' covers: a hyphen and the whitespace
\* after it when a newline is in it
HyphenBreaks(str) ==
    UNION {i..SpaceRunEnd(str, i) :
              i \in {h \in 1..Len(str) :
                        /\ str[h] = "-"
                        /\ \E m \in (h + 1)..SpaceRunEnd(str, h) : str[m] = "\n"}}

\* fix_broken_words(text)
fix_broken_words(str) ==
    IF str = <<>> THEN <<>>
    ELSE Pick(str, (1..Len(str)) \ HyphenBreaks(str))

\* remove_special_characters(text, preserve_punctuation=True)
remove_special_characters(str) ==
    IF str = <<>> THEN <<>>
    ELSE Pick(str, {i \in 1..Len(str) :
                       str[i] \in WordChars \cup SpaceChars \cup Punctuation})

\* multi_space_pattern.sub(' ', text): the pattern is '\s+'
CollapseSpace(str) ==
    Pick([i \in 1..Len(str) |-> IF str[i] \in SpaceChars THEN " " ELSE str[i]],
         {i \in 1..Len(str) :
             str[i] \in SpaceChars => i = 1 \/ str[i - 1] \notin SpaceChars})

\* multi_newline_pattern.sub('\n\n', text): the pattern is '\n{3,}'
CollapseNewlines(str) ==
    Pick(str, {i \in 1..Len(str) :
                  ~(i > 2 /\ str[i] = "\n" /\ str[i - 1] = "\n" /\ str[i - 2] = "\n")})

\* text.split('\n') from position i on
RECURSIVE LinesFrom(_, _)
LinesFrom(str, i) ==
    LET breaks == {j \in i..Len(str) : str[j] = "\n"}
    IN  IF breaks = {} THEN <<SubSeq(str, i, Len(str))>>
        ELSE LET j == CHOOSE b \in breaks : \A c \in breaks : b <= c
             IN  <<SubSeq(str, i, j - 1)>> \o LinesFrom(str, j + 1)

Lines(str) == LinesFrom(str, 1)

\* normalize_whitespace(text)
normalize_whitespace(str) ==
    IF str = <<>> THEN <<>>
    ELSE LET collapsed == CollapseNewlines(CollapseSpace(str))
             lines == [k \in 1..Len(Lines(collapsed)) |-> Strip(Lines(collapsed)[k])]
         IN  Strip(JoinWith(lines, <<"\n">>))

\* str.isdigit()
IsDigit(str) == str # <<>> /\ \A i \in 1..Len(str) : str[i] \in Digits

\* the loop of remove_headers_footers from line k on, with the lines kept so far
RECURSIVE HeaderLoop(_, _, _)
HeaderLoop(lines, cleaned_lines, k) ==
    IF k > Len(lines) THEN cleaned_lines
    ELSE IF IsDigit(Strip(lines[k])) THEN HeaderLoop(lines, cleaned_lines, k + 1)
    ELSE IF Len(Strip(lines[k])) < 5
            /\ (cleaned_lines = <<>> \/ lines[k] = lines[Len(lines)])
    THEN HeaderLoop(lines, cleaned_lines, k + 1)
    ELSE HeaderLoop(lines, Append(cleaned_lines, lines[k]), k + 1)

\* remove_headers_footers(text, remove_page_numbers=True)
remove_headers_footers(str) ==
    IF str = <<>> THEN <<>>
    ELSE JoinWith(HeaderLoop(Lines(str), <<>>, 1), <<"\n">>)

\* one step of clean_text when its flag is set
Step(flag, str, stepped) == IF flag THEN stepped ELSE str

\* clean_text(text, **opts)
clean_text(str, opts) ==
    IF str = <<>> THEN <<>>
    ELSE LET t1 == Step(opts.remove_artifacts, str, remove_pdf_artifacts(str))
             t2 == Step(opts.normalize_encode, t1, normalize_encoding(t1))
             t3 == Step(opts.fix_words, t2, fix_broken_words(t2))
             t4 == Step(opts.remove_special, t3, remove_special_characters(t3))
             t5 == Step(opts.normalize_space, t4, normalize_whitespace(t4))
         IN  Step(opts.remove_headers, t5, remove_headers_footers(t5))

\* the defaults of the parameters of clean_text
DefaultOptions ==
    [remove_special |-> TRUE, normalize_space |-> TRUE, normalize_encode |-> TRUE,
     remove_artifacts |-> TRUE, fix_words |-> TRUE, remove_headers |-> FALSE]

\* every combination of the flags of clean_text
OptionSets ==
    [remove_special : BOOLEAN, normalize_space : BOOLEAN,
     normalize_encode : BOOLEAN, remove_artifacts : BOOLEAN,
     fix_words : BOOLEAN, remove_headers : BOOLEAN]

\* the characters of the texts the preprocessor is tried on
CleanAlphabet == {"a", "1", "-", " ", "\t", "\n", "\r", "^", CHOSEONG, JUNGSEONG}

CleanTexts == UNION {[1..n -> CleanAlphabet] : n \in 0..MaxCleanLen}

\* a text whose second line is short and equal to its last line
HeaderTexts ==
    {<<"a", "a", "a", "a", "a", "\n", "a", "\n",
       "a", "a", "a", "a", "a", "\n", "a">>}

\* a preprocessor and a text: clean_text is called on the text and then on
\* what it returned, or one of the steps is called on the text
CleanInit ==
    /\ \/ /\ pc = "clean_text"
          /\ options \in OptionSets
          /\ text \in CleanTexts
          /\ target_encoding = "utf-8"
       \/ /\ pc = "normalize_whitespace"
          /\ options = DefaultOptions
          /\ text \in CleanTexts
          /\ target_encoding = "utf-8"
       \/ /\ pc = "normalize_encoding"
          /\ options = DefaultOptions
          /\ text \in CleanTexts
          /\ target_encoding \in Codecs
       \/ /\ pc = "remove_headers_footers"
          /\ options = DefaultOptions
          /\ text \in CleanTexts \cup HeaderTexts
          /\ target_encoding = "utf-8"
    /\ cleaned = <<>>
    /\ normalized = <<>>
    /\ step_result = <<>>
    /\ aliased = FALSE
    /\ pdf_result = <<>>
    /\ pdf = [can_open |-> FALSE, pages |-> <<>>]
    /\ parse_result = <<>>
    /\ range_args = <<>>
    /\ range_result = <<>>
    /\ chunk_size_arg = 0
    /\ length = "medium"
    /\ max_workers = DEFAULT_MAX_WORKERS
    /\ has_callback = FALSE
    /\ Fresh
    /\ retry_arg = 0
    /\ retry = RetryStart(0)

\* the text of the next call of clean_text
CleanInput == IF cleaned = <<>> THEN text ELSE cleaned[Len(cleaned)]

CleanText ==
    /\ pc = "clean_text"
    /\ Len(cleaned) < 2
    /\ cleaned' = Append(cleaned, clean_text(CleanInput, options))
    /\ UNCHANGED <<inputs, retry_vars, parser_vars, options, normalized,
                   target_encoding, step_result, aliased, pdf_result, pc,
                   chunks, submitted, futures, chunk_summaries, writes,
                   collected, completed, progress, combined_summary, main,
                   result, network_used, out_of_order>>

NormalizeWhitespace ==
    /\ pc = "normalize_whitespace"
    /\ normalized = <<>>
    /\ normalized' = <<normalize_whitespace(text)>>
    /\ UNCHANGED <<inputs, retry_vars, parser_vars, options, cleaned,
                   target_encoding, step_result, aliased, pdf_result, pc,
                   chunks, submitted, futures, chunk_summaries, writes,
                   collected, completed, progress, combined_summary, main,
                   result, network_used, out_of_order>>

\* normalize_encoding(text, target_encoding)
NormalizeEncoding ==
    /\ pc = "normalize_encoding"
    /\ step_result = <<>>
    /\ step_result' = <<normalize_encoding_to(text, target_encoding)>>
    /\ UNCHANGED <<inputs, retry_vars, parser_vars, options, cleaned, normalized,
                   target_encoding, aliased, pdf_result, pc,
                   chunks, submitted, futures, chunk_summaries, writes,
                   collected, completed, progress, combined_summary, main,
                   result, network_used, out_of_order>>

\* remove_headers_footers(text)
RemoveHeadersFooters ==
    /\ pc = "remove_headers_footers"
    /\ step_result = <<>>
    /\ step_result' = <<remove_headers_footers(text)>>
    /\ UNCHANGED <<inputs, retry_vars, parser_vars, options, cleaned, normalized,
                   target_encoding, aliased, pdf_result, pc,
                   chunks, submitted, futures, chunk_summaries, writes,
                   collected, completed, progress, combined_summary, main,
                   result, network_used, out_of_order>>

CleanNext ==
    \/ CleanText
    \/ NormalizeWhitespace
    \/ NormalizeEncoding
    \/ RemoveHeadersFooters

CleanSpec == CleanInit /\ [][CleanNext]_vars

(***************************************************************************)
(* The preprocessor (CleanSpec).                                           *)
(***************************************************************************)
\* C19 as claimed: with every combination of the flags, clean_text returns
\* what it is given when it is given something it returned
C19_CleanTextIdempotent ==
    Len(cleaned) = 2 => cleaned[2] = cleaned[1]

\* the lines of a text that are not blank
SolidLines(str) == {k \in 1..Len(Lines(str)) : Strip(Lines(str)[k]) # <<>>}

\* C20 as claimed: what normalize_whitespace returns has no tab and no two
\* spaces in a row, no three newlines in a row and only trimmed lines, and it
\* has as many lines that are not blank as the text: no line break between
\* two of them is lost
C20_LineStructureKept ==
    normalized # <<>> =>
        LET out == normalized[1]
        IN  /\ \A i \in 1..Len(out) : out[i] # "\t"
            /\ \A i \in 1..(Len(out) - 1) : ~(out[i] = " " /\ out[i + 1] = " ")
            /\ \A i \in 1..(Len(out) - 2) :
                   ~(out[i] = "\n" /\ out[i + 1] = "\n" /\ out[i + 2] = "\n")
            /\ \A k \in 1..Len(Lines(out)) : Strip(Lines(out)[k]) = Lines(out)[k]
            /\ Cardinality(SolidLines(out)) = Cardinality(SolidLines(text))

(***************************************************************************)
(* One call summarize_text(text, length) with the whole history of its     *)
(* request (CallSpec).                                                     *)
(***************************************************************************)
\* the texts of the call: empty, blank and words
CallTexts == {<<>>, BlankPara, WordPara(1)}

CallLengths == {"short", "medium", "long"}

\* the completions the endpoint may return: none, a blank, the text, a summary
CallResponses(str) == {<<>>, <<" ">>, str, Summary(str)}

CallOutcomes(str) ==
    {[kind |-> "ok", body |-> b] : b \in CallResponses(str)}
    \cup {[kind |-> k, body |-> <<>>] : k \in NetKinds \ {"ok"}}

CallInit ==
    /\ text \in CallTexts
    /\ length \in CallLengths
    /\ pc = "call"
    /\ main = EnterCall(length)
    /\ chunk_size_arg = 0
    /\ max_workers = DEFAULT_MAX_WORKERS
    /\ has_callback = FALSE
    /\ chunks = <<>>
    /\ submitted = 0
    /\ futures = <<>>
    /\ chunk_summaries = <<>>
    /\ writes = <<>>
    /\ collected = {}
    /\ completed = 0
    /\ progress = <<>>
    /\ combined_summary = <<>>
    /\ result = <<>>
    /\ network_used = FALSE
    /\ out_of_order = FALSE
    /\ retry_arg = 0
    /\ retry = RetryStart(0)
    /\ DocIdle

\* "if not text or not text.strip(): return text"
CallBlank ==
    /\ pc = "call"
    /\ main.st = "running"
    /\ Blank(text)
    /\ main' = ReturnBlank(main, text)
    /\ result' = text
    /\ UNCHANGED <<inputs, retry_vars, doc_vars, pc, chunks, submitted, futures,
                   chunk_summaries, writes, collected, completed, progress,
                   combined_summary, network_used, out_of_order>>

\* one attempt of the request of the call and, when it is the last one, the
\* return of the call
CallAttempt(net) ==
    /\ pc = "call"
    /\ main.st = "running"
    /\ ~Blank(text)
    /\ main' = CallRequest(main, text, net)
    /\ result' = IF main'.st = "done" THEN main'.ret ELSE result
    /\ network_used' = TRUE
    /\ UNCHANGED <<inputs, retry_vars, doc_vars, pc, chunks, submitted, futures,
                   chunk_summaries, writes, collected, completed, progress,
                   combined_summary, out_of_order>>

CallNext == CallBlank \/ \E net \in CallOutcomes(text) : CallAttempt(net)

CallSpec == CallInit /\ [][CallNext]_vars

\* the request of the call ended with a response
RequestSucceeded == main.st = "done" /\ main.rr.state = "returned"

\* C24 as claimed: after a successful request the call returns the response
\* as received, whatever the response
C24_ResponseReturnedVerbatim ==
    RequestSucceeded => main.outcome = "value" /\ main.ret = main.rr.value

\* C24 as amended: after a successful request the call returns the response
\* as received when the response is not empty, and the text it was given
\* when the response is empty
C24_NonEmptyResponseVerbatim ==
    RequestSucceeded =>
        /\ main.outcome = "value"
        /\ result = main.ret
        /\ main.rr.value # <<>> => main.ret = main.rr.value
        /\ main.rr.value = <<>> => main.ret = text

C24_Witness ==
    /\ RequestSucceeded
    /\ Len(main.rr.errors) = 1
    /\ main.rr.value = <<" ">>
    /\ main.ret = <<" ">>
    /\ text # <<" ">>

(***************************************************************************)
(* More on the chunked summarization and the retry policy.                 *)
(***************************************************************************)
\* the text the calling thread's summarize_text call was made on
TextOfMain == IF NChunks >= 1 THEN combined_summary ELSE text

\* C25: with a progress callback, the calls of the callback so far are
\* (1, N), (2, N), ... one for each chunk collected, in this order whatever
\* the order of the indices, and once the results are joined there are N of
\* them, the last one (N, N)
C25_ProgressCountsCompletions ==
    has_callback /\ NChunks >= 1 /\ pc \in {"collect", "final", "done"} =>
        /\ progress = [k \in 1..Cardinality(collected) |-> <<k, Len(chunks)>>]
        /\ Combined =>
               /\ Len(progress) = Len(chunks)
               /\ progress[Len(progress)] = <<Len(chunks), Len(chunks)>>

C25_Witness ==
    /\ has_callback
    /\ Combined
    /\ out_of_order
    /\ progress = <<<<1, 3>>, <<2, 3>>, <<3, 3>>>>

C29_DelaysNonDecreasing ==
    \A k \in 1..(Len(retry.slept) - 1) : retry.slept[k] <= retry.slept[k + 1]

\* the failures of the direct call that are followed by the doubled delay
Doubled == {k \in Failed : retry.errors[k].cls \notin {"Timeout", "ValueError"}}

\* C29 as amended: the delays slept in a call are non-decreasing when the
\* maximum number of attempts is at most 3, and, for every maximum, when the
\* failures are all followed by the doubled delay or all by the single one
C29_DelaysNonDecreasingUpToThree ==
    retry.max_retries <= 3 \/ Doubled = {} \/ Doubled = Failed =>
        \A k \in 1..(Len(retry.slept) - 1) : retry.slept[k] <= retry.slept[k + 1]

C29_Witness ==
    /\ retry_arg = 0
    /\ retry.state = "raised"
    /\ retry.slept = <<4, 4>>
    /\ retry.errors[1].cls = "ConnectionError"
    /\ retry.errors[2].cls = "Timeout"

\* the summarize_text calls that have been made
CallsMade ==
    Cardinality({idx \in DOMAIN futures : futures[idx].st # "idle"})
    + (IF main.st # "idle" THEN 1 ELSE 0)

\* the calls whose request is being tried
Trying ==
    {futures[idx] : idx \in Running} \cup (IF main.st = "running" THEN {main} ELSE {})

\* C30: when every network call ends, the invocation returns; a request that
\* is being tried has made fewer attempts than the maximum, so it never makes
\* more than the maximum; the call on a text that is not blank ends with an
\* attempt; a call that has ended makes no attempt and does not change any
\* more; and at most one call is made for each chunk and one more for the
\* final summary, which is never split or made again
C30_InvocationTerminates ==
    /\ <>(pc = "done")
    /\ [](\A call \in Trying :
              /\ call.rr.state = "trying"
              /\ call.rr.max_retries = MAX_RETRIES
              /\ call.rr.made = call.rr.attempt
              /\ call.rr.attempt < MAX_RETRIES)
    /\ [](CallsMade <= Len(chunks) + 1)
    /\ [][/\ \A idx \in DOMAIN futures :
                /\ futures[idx].st = "done" => futures'[idx] = futures[idx]
                /\ futures[idx].st = "running" /\ futures'[idx].st = "done"
                   /\ ~Blank(Chunk(idx))
                   => futures'[idx].rr.state \in {"returned", "raised"}
          /\ main.st = "done" => main' = main
          /\ main.st = "running" /\ main'.st = "done" /\ ~Blank(TextOfMain')
             => main'.rr.state \in {"returned", "raised"}
          /\ pc = "final" => pc' \in {"final", "done"} /\ chunks' = chunks
          /\ pc = "done" => pc' = "done"]_vars

C30_Witness ==
    /\ pc = "done"
    /\ NChunks = 3
    /\ CallsMade = 4
    /\ main.rr.state = "raised"
    /\ \E idx \in Indices : futures[idx].rr.state = "raised"
    /\ \E idx \in Indices : futures[idx].rr.state = "returned"

\* parse has opened the file: it is in its loop, has returned, or was left by
\* an exception of the progress callback
InParse == pc \in {"parsing", "parsed"} \/ (pc = "parse_raised" /\ pdf.can_open)

\* the statistics agree with the page records folded in so far
SumsAgree ==
    LET stats == parse_result.statistics
        recs == parse_result.pages
    IN  /\ stats.total_words = SumSeq([k \in DOMAIN recs |-> recs[k].word_count])
        /\ stats.total_tables = SumSeq([k \in DOMAIN recs |-> Len(recs[k].tables)])
        /\ stats.total_paragraphs
               = SumSeq([k \in DOMAIN recs |-> Len(recs[k].paragraphs)])
        /\ stats.total_tables = Len(parse_result.all_tables)

\* C26 as stated: in every state of parse, total_pages is the number of page
\* records folded in so far and the other totals are the sums over them
C26_StatisticsConsistentInEveryState ==
    InParse =>
        /\ parse_result.statistics.total_pages = Len(parse_result.pages)
        /\ SumsAgree

\* C26: in every state of parse, total_words, total_tables and
\* total_paragraphs are the sums over the page records folded in so far;
\* total_pages is the page count of the file from before the first page, so
\* the number of page records is at most total_pages and equals it when parse
\* returns; the k-th progress call reports k of total_pages
C26_TotalsAreSumsSoFar ==
    InParse =>
        /\ SumsAgree
        /\ parse_result.statistics.total_pages = NPages
        /\ Len(parse_result.pages) <= NPages
        /\ pc = "parsed" => Len(parse_result.pages) = NPages
        /\ pc = "parsing" => Len(parse_result.pages) < NPages
        /\ has_callback => /\ Len(progress) = Len(parse_result.pages)
                           /\ \A k \in DOMAIN progress : progress[k] = <<k, NPages>>
        /\ ~has_callback => progress = <<>>

\* the progress callback has been called for the first of two pages, which
\* has words and a table
C26_Witness ==
    /\ pc = "parsing"
    /\ has_callback
    /\ NPages = 2
    /\ Len(parse_result.pages) = 1
    /\ Len(progress) = 1
    /\ parse_result.statistics.total_words > 0
    /\ parse_result.statistics.total_tables = 1

\* the lines remove_headers_footers may drop: the purely numeric ones and the
\* first and the last line of the text when shorter than 5 characters
MayDrop(lines, k) ==
    \/ IsDigit(Strip(lines[k]))
    \/ Len(Strip(lines[k])) < 5 /\ k \in {1, Len(lines)}

\* C27 as claimed: what remove_headers_footers returns is the text without
\* some of its purely numeric lines and of its short first and last line:
\* every other line is kept, in order
C27_OnlyEdgeLinesDropped ==
    pc = "remove_headers_footers" /\ step_result # <<>> /\ text # <<>> =>
        LET lines == Lines(text)
            must == {k \in 1..Len(lines) : ~MayDrop(lines, k)}
        IN  \E keep \in SUBSET (1..Len(lines)) :
                /\ must \subseteq keep
                /\ step_result[1] = JoinWith(Pick(lines, keep), <<"\n">>)

\* a step failed: encode raised for the unknown codec
StepFailed ==
    pc = "normalize_encoding" /\ text # <<>> /\ target_encoding \notin KnownCodecs

\* C21 as claimed: a step and clean_text return the empty string for the
\* empty text, and a step that failed returns the text it was given
C21_StepsTotal ==
    /\ step_result # <<>> =>
           /\ text = <<>> => step_result[1] = <<>>
           /\ StepFailed => step_result[1] = text
    /\ cleaned # <<>> /\ text = <<>> => cleaned[1] = <<>>

(***************************************************************************)
(* preprocess_pdf_result (PrepSpec): a file is parsed and the result is    *)
(* preprocessed.  The table dictionaries are objects: parse puts the same  *)
(* objects in the page and in all_tables, a result that was copied or      *)
(* loaded has an object of its own at each place.                          *)
(***************************************************************************)
\* the keyword arguments clean_table_data passes to clean_text
TableOptions ==
    [remove_special |-> FALSE, normalize_space |-> TRUE, normalize_encode |-> TRUE,
     remove_artifacts |-> TRUE, fix_words |-> FALSE, remove_headers |-> FALSE]

\* a cleaning of the cells that leaves the empty ones out
CleanTableDropEmpty(table_data) ==
    [r \in 1..Len(table_data) |->
        LET row == [c \in 1..Len(table_data[r]) |->
                       clean_text(table_data[r][c], TableOptions)]
        IN  Pick(row, {c \in 1..Len(row) : row[c] # <<>>})]

\* clean_table_data(table_data): the cells are strings, str(cell) is the cell
clean_table_data(table_data) ==
    [r \in 1..Len(table_data) |->
        [c \in 1..Len(table_data[r]) |-> clean_text(table_data[r][c], TableOptions)]]

\* "[self.clean_text(para) for para in page['paragraphs']]"
CleanParagraphs(paragraphs) ==
    [j \in 1..Len(paragraphs) |-> clean_text(paragraphs[j], DefaultOptions)]

\* the number of tables of the pages before page k
TablesBefore(res, k) == SumSeq([i \in 1..(k - 1) |-> Len(res.pages[i].tables)])

\* the number of tables of the pages
PageTables(res) == TablesBefore(res, Len(res.pages) + 1)

\* the object that is table j of page k
PageRef(res, k, j) == TablesBefore(res, k) + j

\* the object that is all_tables[j]: the object of the page, or one of its own
AllRef(res, shared, j) == IF shared THEN j ELSE PageTables(res) + j

\* the table objects before the call
TableObjects(res, shared) ==
    IF shared THEN res.all_tables ELSE res.all_tables \o res.all_tables

\* "table['data'] = self.clean_table_data(table['data'])" for the objects refs
\* from position k on
RECURSIVE CleanTables(_, _, _)
CleanTables(heap, refs, k) ==
    IF k > Len(refs) THEN heap
    ELSE CleanTables([heap EXCEPT ![refs[k]].data = clean_table_data(@)], refs, k + 1)

\* preprocess_pdf_result(pdf_result): the dictionary is changed in place
preprocess_pdf_result(res, shared) ==
    LET page_refs == [i \in 1..PageTables(res) |-> i]
        all_refs == [j \in 1..Len(res.all_tables) |-> AllRef(res, shared, j)]
        heap == CleanTables(CleanTables(TableObjects(res, shared), page_refs, 1),
                            all_refs, 1)
    IN  [metadata |-> res.metadata,
         statistics |-> res.statistics,
         all_text |-> clean_text(res.all_text, DefaultOptions),
         pages |->
             [k \in 1..Len(res.pages) |->
                 [res.pages[k] EXCEPT
                     !.text = clean_text(@, DefaultOptions),
                     !.paragraphs = CleanParagraphs(@),
                     !.tables = [j \in 1..Len(@) |-> heap[PageRef(res, k, j)]]]],
         all_tables |-> [j \in 1..Len(res.all_tables) |-> heap[all_refs[j]]]]

\* the texts of the pages
DirtyTexts ==
    {<<>>, <<CHOSEONG, "\r", JUNGSEONG>>, <<"a", "-", "\n", " ", "^", "a">>}

\* the words of a page: a word that cleans to nothing and a word on a line
\* of its own, or no word
DirtyWords ==
    {<<>>,
     <<[top |-> 100, text |-> <<"^">>],
       [top |-> 120, text |-> <<"a", " ", " ", CHOSEONG, JUNGSEONG>>]>>}

\* a table of a row of three cells and a row of one
RaggedTable ==
    << <<Cell(<<" ", "a", "\t", "\t", "a">>), NoneCell,
         Cell(<<CHOSEONG, "\r", JUNGSEONG>>)>>,
       <<Cell(<<"^">>)>> >>

\* a table with a cell of two jamo around a surrogate
SurrogateTable == << <<Cell(<<CHOSEONG, SURROGATE, JUNGSEONG>>)>> >>

DirtyTables == {<<>>, <<RaggedTable>>, <<RaggedTable, SurrogateTable>>}

DirtyPage(raw_text, words, tables, text_raises) ==
    [page_number |-> 0, raw_text |-> raw_text, words |-> words,
     text_raises |-> text_raises, tables |-> tables, tables_raise |-> FALSE,
     width |-> 612, height |-> 792]

DirtyPages ==
    {DirtyPage(raw_text, words, tables, FALSE) :
        raw_text \in DirtyTexts, words \in DirtyWords, tables \in DirtyTables}
    \cup {DirtyPage(<<"a">>, <<>>, <<RaggedTable>>, TRUE)}

\* the files: with a title in the metadata or without
DirtyFiles ==
    {[can_open |-> TRUE, pages |-> Numbered(pages), title |-> <<" ", "a", "\r">>] :
        pages \in UNION {[1..n -> DirtyPages] : n \in 0..MaxPages}}
    \cup {[can_open |-> TRUE, pages |-> Numbered(<<page>>)] : page \in DirtyPages}

PrepInit ==
    /\ pdf \in DirtyFiles
    /\ aliased \in BOOLEAN
    /\ has_callback = FALSE
    /\ pc = "parser"
    /\ parse_result = <<>>
    /\ range_args = <<>>
    /\ range_result = <<>>
    /\ options = <<>>
    /\ cleaned = <<>>
    /\ normalized = <<>>
    /\ target_encoding = "utf-8"
    /\ step_result = <<>>
    /\ pdf_result = <<>>
    /\ SummarizerIdle

\* preprocess_pdf_result on what parse returned, or on a copy of it
Preprocess ==
    /\ pc = "parsed"
    /\ pdf_result' = preprocess_pdf_result(parse_result, aliased)
    /\ pc' = "preprocessed"
    /\ UNCHANGED <<parser_vars, options, cleaned, normalized, target_encoding,
                   step_result, aliased, has_callback, progress, summarizer_vars>>

PrepNext == ParseOpen \/ ParsePage(FALSE) \/ Preprocess

PrepSpec == PrepInit /\ [][PrepNext]_vars

Preprocessed == pc = "preprocessed"

\* C22 as claimed: after preprocess_pdf_result, all_text, the text and the
\* paragraphs of every page are clean_text of what they were, and the data of
\* every table, in the pages and in all_tables, is clean_table_data of what it
\* was, whether the tables are shared or not
C22_NoStaleCopy ==
    Preprocessed =>
        /\ pdf_result.all_text = clean_text(parse_result.all_text, DefaultOptions)
        /\ \A k \in 1..Len(parse_result.pages) :
               LET before == parse_result.pages[k]
                   after == pdf_result.pages[k]
               IN  /\ after.text = clean_text(before.text, DefaultOptions)
                   /\ Len(after.paragraphs) = Len(before.paragraphs)
                   /\ \A j \in 1..Len(before.paragraphs) :
                          after.paragraphs[j]
                              = clean_text(before.paragraphs[j], DefaultOptions)
                   /\ \A j \in 1..Len(before.tables) :
                          after.tables[j].data = clean_table_data(before.tables[j].data)
        /\ \A j \in 1..Len(parse_result.all_tables) :
               pdf_result.all_tables[j].data
                   = clean_table_data(parse_result.all_tables[j].data)

\* the shape of a table: its number, its counts and the length of each row
ShapeOf(table) ==
    <<table.table_number, table.rows, table.columns,
      [r \in 1..Len(table.data) |-> Len(table.data[r])]>>

\* C23: preprocess_pdf_result leaves the metadata, the statistics, the number
\* and the numbers of the pages, their word counts and sizes, the number of
\* paragraphs of each page, the number of tables and the shape of each
\* table, ragged rows included, as they were
C23_OnlyStringsChange ==
    Preprocessed =>
        /\ pdf_result.metadata = parse_result.metadata
        /\ pdf_result.statistics = parse_result.statistics
        /\ Len(pdf_result.pages) = Len(parse_result.pages)
        /\ \A k \in 1..Len(parse_result.pages) :
               LET before == parse_result.pages[k]
                   after == pdf_result.pages[k]
               IN  /\ after.page_number = before.page_number
                   /\ after.word_count = before.word_count
                   /\ after.width = before.width
                   /\ after.height = before.height
                   /\ Len(after.paragraphs) = Len(before.paragraphs)
                   /\ Len(after.tables) = Len(before.tables)
                   /\ \A j \in 1..Len(before.tables) :
                          ShapeOf(after.tables[j]) = ShapeOf(before.tables[j])
        /\ Len(pdf_result.all_tables) = Len(parse_result.all_tables)
        /\ \A j \in 1..Len(parse_result.all_tables) :
               ShapeOf(pdf_result.all_tables[j]) = ShapeOf(parse_result.all_tables[j])

\* a result of two pages was preprocessed: a paragraph was cleaned to the
\* empty string, a cell of a ragged table was changed and another is empty,
\* and the title of the metadata has a carriage return
C23_Witness ==
    /\ Preprocessed
    /\ Len(pdf_result.pages) = 2
    /\ \E k \in 1..2 :
           /\ \E j \in 1..Len(pdf_result.pages[k].paragraphs) :
                  /\ pdf_result.pages[k].paragraphs[j] = <<>>
                  /\ parse_result.pages[k].paragraphs[j] # <<>>
           /\ \E j \in 1..Len(pdf_result.pages[k].tables) :
                  LET data == pdf_result.pages[k].tables[j].data
                  IN  /\ Len(data) = 2
                      /\ Len(data[1]) = 3
                      /\ Len(data[2]) = 1
                      /\ data[1][2] = <<>>
                      /\ data # parse_result.pages[k].tables[j].data
    /\ \E i \in 1..Len(pdf_result.metadata.title) : pdf_result.metadata.title[i] = "\r"

====
